---- MODULE Spec2Model ----
(***************************************************************************)
(* Model of src/main.go: the bingo simulation (boards, draw marker, win    *)
(* detector, scorer and the two strategies playBingoBestChoice and         *)
(* playBingoWorstChoice) as main runs them, plus the functions run on      *)
(* their own.                                                              *)
(*                                                                         *)
(* A board is a function [1..boardSize -> [1..boardSize -> Int]]; a Go     *)
(* slice of boards is a sequence of boards.  Inputs are non-negative, the  *)
(* precondition of the sentinel encoding (a marked cell is -1).            *)
(***************************************************************************)
EXTENDS Integers, Sequences, FiniteSets

VARIABLES
    numbers,   \* main's `numbers`: the draw sequence, as parsed
    input,     \* the boards as parseNumberBoards returned them (never changed)
    parsed,    \* main's `boards`: contents of the backing array, marked in place
    drawn,     \* the numbers markDrawnNumber has applied to `parsed` so far
    boards,    \* the running strategy's local slice `boards`
    alias,     \* TRUE while the local slice still refers to main's backing array
    pc,        \* "best", "worst", "done", "panic"; "marks" in the marker harness
    draw,      \* loop index `draw` of the running strategy (draws completed)
    result1,   \* value returned by playBingoBestChoice
    result2,   \* value returned by playBingoWorstChoice
    log1,      \* the "found %d winning board(s)" line of playBingoBestChoice
    shown1,    \* the board playBingoBestChoice printed
    log2,      \* the "found %d last winning board(s)" line of playBingoWorstChoice
    shown2     \* the board playBingoWorstChoice printed

vars == <<numbers, input, parsed, drawn, boards, alias, pc, draw,
          result1, result2, log1, shown1, log2, shown2>>

\* ------------------------------------------------------------------ bounds

MaxBoards == 3
MaxDraws == 5

\* ------------------------------------------------------------------ boards

boardSize == 5

Idx == 1..boardSize

\* the zero value of type board
ZeroBoard == [y \in Idx |-> [x \in Idx |-> 0]]

RECURSIVE SumTo(_, _)
\* f[1] + ... + f[n]: the `sum += val` loops
SumTo(f, n) == IF n = 0 THEN 0 ELSE f[n] + SumTo(f, n - 1)

\* ------------------------------------------------------------------ marker

\* faulty variant: the number is marked on the boards as parsed, earlier marks lost
markDrawnNumberStale(bs, number) ==
    [b \in 1..Len(bs) |->
        [y \in Idx |-> [x \in Idx |->
            IF b <= Len(input) /\ input[b][y][x] = number THEN -1
            ELSE IF b <= Len(input) THEN input[b][y][x] ELSE bs[b][y][x]]]]

\* faulty variant: only the first board of the slice is marked
markDrawnNumberFirstBoard(bs, number) ==
    [b \in 1..Len(bs) |->
        [y \in Idx |-> [x \in Idx |->
            IF b = 1 /\ bs[b][y][x] = number THEN -1 ELSE bs[b][y][x]]]]

\* faulty variant: the loop marks copies of the boards, the slice is unchanged
markDrawnNumberCopy(bs, number) == bs

markDrawnNumber(bs, number) ==
    [b \in 1..Len(bs) |->
        [y \in Idx |-> [x \in Idx |->
            IF bs[b][y][x] = number THEN -1 ELSE bs[b][y][x]]]]

\* ------------------------------------------------------------------ win detector

\* `sum += val` over the five cells of row y
rowSum(board, y) ==
    board[y][1] + board[y][2] + board[y][3] + board[y][4] + board[y][5]

\* `sum += board[y][x]` over the five cells of column x
colSum(board, x) ==
    board[1][x] + board[2][x] + board[3][x] + board[4][x] + board[5][x]

\* faulty variant: the column loop is missing
winningRowsOnly(board) ==
    \E y \in Idx : rowSum(board, y) = -boardSize

\* the `winning` decision of findWinningBoards for one board
winning(board) ==
    \/ \E y \in Idx : rowSum(board, y) = -boardSize
    \/ \E x \in Idx : colSum(board, x) = -boardSize

findWinningBoards(bs) == SelectSeq(bs, winning)

\* faulty variant: the column loop of findNonWinningBoards is missing
winningFlagRowsOnly(board) ==
    \E y \in Idx : rowSum(board, y) = -boardSize

\* the `winning` flag of findNonWinningBoards for one board
winningFlag(board) ==
    \/ \E y \in Idx : rowSum(board, y) = -boardSize
    \/ \E x \in Idx : colSum(board, x) = -boardSize

\* faulty variant: the test `if !winning` is inverted
findNonWinningBoardsInverted(bs) == SelectSeq(bs, winningFlag)

\* faulty variant: boards that have won are kept in the working set
findNonWinningBoardsKeepAll(bs) == bs

findNonWinningBoards(bs) == SelectSeq(bs, LAMBDA board : ~winningFlag(board))

\* ------------------------------------------------------------------ scorer

\* faulty variant: guessed (negative) numbers are not skipped
calcBoardScoreNoSkip(board) ==
    SumTo([y \in Idx |-> SumTo(board[y], boardSize)], boardSize)

calcBoardScore(board) ==
    SumTo([y \in Idx |->
              SumTo([x \in Idx |-> IF board[y][x] > 0 THEN board[y][x] ELSE 0],
                    boardSize)],
          boardSize)

RECURSIVE bestFrom(_, _, _, _)
\* the loop of findHighestScoringBoard from index i on
bestFrom(bs, i, bestScore, bestBoard) ==
    IF i > Len(bs) THEN bestBoard
    ELSE IF calcBoardScore(bs[i]) > bestScore
         THEN bestFrom(bs, i + 1, calcBoardScore(bs[i]), bs[i])
         ELSE bestFrom(bs, i + 1, bestScore, bestBoard)

\* faulty variant: the first board is taken, scores are not compared
findHighestScoringBoardFirst(bs) == IF Len(bs) > 0 THEN bs[1] ELSE ZeroBoard

findHighestScoringBoard(bs) == bestFrom(bs, 1, 0, ZeroBoard)

\* ------------------------------------------------------------------ inputs

\* a board of parseNumberBoards: the cells of one line (a column, a row, a
\* diagonal, or every cell) hold v, the others cycle through 0, 1, 2
PatternBoard(kind, v) ==
    [y \in Idx |-> [x \in Idx |->
        IF \/ kind = "col" /\ x = 1
           \/ kind = "row" /\ y = 1
           \/ kind = "diag" /\ x = y
           \/ kind = "anti" /\ x + y = boardSize + 1
           \/ kind = "all"
        THEN v ELSE (x + 2 * y) % 3]]

\* the boards the strategies are run on
GamePool ==
    {PatternBoard("col", 0), PatternBoard("col", 1), PatternBoard("row", 1)}

\* the boards the marker, the win detector and the scorer are run on
BoardPool ==
    GamePool \cup
    {PatternBoard("diag", 1), PatternBoard("anti", 1), PatternBoard("all", 1)}

\* the numbers that can be drawn: the values on the boards
DrawVals == UNION {{b[y][x] : y \in Idx, x \in Idx} : b \in BoardPool}

DrawSeqs == UNION {[1..n -> DrawVals] : n \in 0..MaxDraws}

BoardSeqs(pool) == UNION {[1..n -> pool] : n \in 0..MaxBoards}

\* the classic fixture: 27 draws, three boards
ClassicDraws ==
    <<7, 4, 9, 5, 11, 17, 23, 2, 0, 14, 21, 24, 10, 16, 13, 6, 15, 25, 12,
      22, 18, 20, 8, 19, 3, 26, 1>>

ClassicB1 ==
    << <<22, 13, 17, 11, 0>>, <<8, 2, 23, 4, 24>>, <<21, 9, 14, 16, 7>>,
       <<6, 10, 3, 18, 5>>, <<1, 12, 20, 15, 19>> >>

ClassicB2 ==
    << <<3, 15, 0, 2, 22>>, <<9, 18, 13, 17, 5>>, <<19, 8, 7, 25, 23>>,
       <<20, 11, 10, 24, 4>>, <<14, 21, 16, 12, 6>> >>

ClassicB3 ==
    << <<14, 21, 17, 24, 4>>, <<10, 16, 15, 9, 19>>, <<18, 8, 23, 26, 20>>,
       <<22, 11, 13, 6, 5>>, <<2, 0, 12, 3, 7>> >>

ClassicBoards == <<ClassicB1, ClassicB2, ClassicB3>>

\* ------------------------------------------------------------------ strategies

\* one iteration of the loop of playBingoWorstChoice on the local slice:
\* stop is the break, boards the slice after the iteration
worstIter(bs, number) ==
    IF Len(bs) > 2
    THEN [stop |-> FALSE,
          boards |-> findNonWinningBoards(markDrawnNumber(bs, number))]
    ELSE [stop |-> TRUE,
          boards |-> findWinningBoards(markDrawnNumber(bs, number))]

RECURSIVE worstRun(_, _, _)
\* playBingoWorstChoice(bs, nums) from iteration i on: whether it panics
\* (boards[0] of an empty slice) and the score it returns
worstRun(bs, nums, i) ==
    IF i > Len(nums) THEN [panic |-> FALSE, score |-> 0]
    ELSE LET it == worstIter(bs, nums[i])
         IN  IF ~it.stop THEN worstRun(it.boards, nums, i + 1)
             ELSE IF Len(it.boards) = 0 THEN [panic |-> TRUE, score |-> 0]
             ELSE [panic |-> FALSE,
                   score |-> calcBoardScore(it.boards[1]) * nums[i]]

InitCommon ==
    /\ parsed = input
    /\ boards = input
    /\ drawn = {}
    /\ alias = TRUE
    /\ draw = 0
    /\ result1 = 0
    /\ result2 = 0
    /\ log1 = <<>>
    /\ shown1 = <<>>
    /\ log2 = <<>>
    /\ shown2 = <<>>

GameInputs ==
    \/ numbers \in DrawSeqs /\ input \in BoardSeqs(GamePool)
    \/ numbers = ClassicDraws /\ input = ClassicBoards

\* main: playBingoBestChoice(boards, numbers) is entered
Init ==
    /\ GameInputs
    /\ pc = "best"
    /\ InitCommon

\* one iteration of the loop of playBingoBestChoice; on a win the function
\* returns and main calls playBingoWorstChoice with the same slice
BestDraw ==
    /\ pc = "best"
    /\ draw < Len(numbers)
    /\ \E currentNumber \in {numbers[draw + 1]} :
       \E m \in {markDrawnNumber(boards, currentNumber)} :
       \E winningBoards \in {findWinningBoards(m)} :
       \E bestBoard \in {findHighestScoringBoard(winningBoards)} :
           /\ parsed' = m
           /\ boards' = m
           /\ drawn' = drawn \cup {currentNumber}
           /\ IF Len(winningBoards) > 0
              THEN /\ log1' = <<[draw |-> draw + 1, number |-> currentNumber,
                                 count |-> Len(winningBoards)]>>
                   /\ shown1' = <<bestBoard>>
                   /\ result1' = calcBoardScore(bestBoard) * currentNumber
                   /\ pc' = "worst"
                   /\ draw' = 0
              ELSE /\ draw' = draw + 1
                   /\ UNCHANGED <<log1, shown1, result1, pc>>
    /\ UNCHANGED <<numbers, input, alias, result2, log2, shown2>>

\* the draws are exhausted without a winner: playBingoBestChoice returns 0
BestExhausted ==
    /\ pc = "best"
    /\ draw = Len(numbers)
    /\ result1' = 0
    /\ pc' = "worst"
    /\ draw' = 0
    /\ UNCHANGED <<numbers, input, parsed, drawn, boards, alias, result2,
                   log1, shown1, log2, shown2>>

\* one iteration of the loop of playBingoWorstChoice
WorstDraw ==
    /\ pc = "worst"
    /\ draw < Len(numbers)
    /\ \E currentNumber \in {numbers[draw + 1]} :
       \E it \in {worstIter(boards, currentNumber)} :
           /\ parsed' = IF alias THEN markDrawnNumber(parsed, currentNumber)
                        ELSE parsed
           /\ drawn' = IF alias THEN drawn \cup {currentNumber} ELSE drawn
           /\ boards' = it.boards
           /\ alias' = FALSE
           /\ IF ~it.stop
              THEN /\ draw' = draw + 1
                   /\ UNCHANGED <<log2, shown2, result2, pc>>
              ELSE /\ log2' = <<[draw |-> draw + 1, number |-> currentNumber,
                                 count |-> Len(it.boards)]>>
                   /\ draw' = draw
                   /\ IF Len(it.boards) = 0
                      THEN /\ pc' = "panic"
                           /\ UNCHANGED <<shown2, result2>>
                      ELSE /\ shown2' = <<it.boards[1]>>
                           /\ result2' =
                                  calcBoardScore(it.boards[1]) * currentNumber
                           /\ pc' = "done"
    /\ UNCHANGED <<numbers, input, result1, log1, shown1>>

\* the draws are exhausted: playBingoWorstChoice returns 0
WorstExhausted ==
    /\ pc = "worst"
    /\ draw = Len(numbers)
    /\ result2' = 0
    /\ pc' = "done"
    /\ UNCHANGED <<numbers, input, parsed, drawn, boards, alias, draw, result1,
                   log1, shown1, log2, shown2>>

Next == BestDraw \/ BestExhausted \/ WorstDraw \/ WorstExhausted

Spec == Init /\ [][Next]_vars

\* playBingoWorstChoice called on its own with the boards as parsed
InitWorst ==
    /\ GameInputs
    /\ pc = "worst"
    /\ InitCommon

NextWorst == WorstDraw \/ WorstExhausted

SpecWorst == InitWorst /\ [][NextWorst]_vars

\* markDrawnNumber called on its own, any number at a time, on boards as parsed
InitMarks ==
    /\ numbers = <<>>
    /\ input \in BoardSeqs(BoardPool)
    /\ pc = "marks"
    /\ InitCommon

MarkStep ==
    /\ pc = "marks"
    /\ draw < MaxDraws
    /\ \E number \in DrawVals :
          /\ parsed' = markDrawnNumber(parsed, number)
          /\ drawn' = drawn \cup {number}
    /\ boards' = parsed'
    /\ draw' = draw + 1
    /\ UNCHANGED <<numbers, input, alias, pc, result1, result2,
                   log1, shown1, log2, shown2>>

NextMarks == MarkStep

SpecMarks == InitMarks /\ [][NextMarks]_vars

\* ------------------------------------------------------------------ reference notions

\* the numbers of the first k draws
DrawnUpTo(k) == {numbers[i] : i \in 1..k}

\* board b0 (as parsed) has a row or a column all of whose values are in D
HasLine(b0, D) ==
    \E i \in Idx : \/ \A j \in Idx : b0[i][j] \in D
                   \/ \A j \in Idx : b0[j][i] \in D

\* sum of the values of b0 (as parsed) that are not in D
UnmarkedSum(b0, D) ==
    SumTo([k \in 1..(boardSize * boardSize) |->
              LET v == b0[((k - 1) \div boardSize) + 1][((k - 1) % boardSize) + 1]
              IN  IF v \in D THEN 0 ELSE v],
          boardSize * boardSize)

\* b0 (as parsed) with every value in D marked
MarkedBoard(b0, D) ==
    [y \in Idx |-> [x \in Idx |-> IF b0[y][x] \in D THEN -1 ELSE b0[y][x]]]

\* the draw (1-based) after which b0 first has a complete line, 0 if never
FirstWin(b0) ==
    IF \E k \in 1..Len(numbers) : HasLine(b0, DrawnUpTo(k))
    THEN CHOOSE k \in 1..Len(numbers) :
             /\ HasLine(b0, DrawnUpTo(k))
             /\ ~HasLine(b0, DrawnUpTo(k - 1))
    ELSE 0

\* the boards (indices into input) with a complete line after draw k
WinnersAt(k) == {i \in 1..Len(input) : HasLine(input[i], DrawnUpTo(k))}

SetMax(S) == CHOOSE m \in S : \A n \in S : n <= m

SetMin(S) == CHOOSE m \in S : \A n \in S : m <= n

\* playBingoBestChoice has just returned to main
BestReturned == pc = "worst" /\ draw = 0 /\ alias

\* playBingoWorstChoice has ended: returned, or panicked
WorstEnded == pc \in {"done", "panic"}

ClassicRun == numbers = ClassicDraws /\ input = ClassicBoards

\* ------------------------------------------------------------------ claims

\* C1: on the classic fixture playBingoBestChoice, run on the unmarked
\* boards, returns 4512.
C1_ClassicBest ==
    (ClassicRun /\ pc # "best") => result1 = 4512

C1_Witness ==
    ClassicRun /\ BestReturned /\ Len(log1) = 1 /\ log1[1].draw = 12

\* C2: on the classic fixture playBingoWorstChoice, run on the unmarked
\* boards, returns 1924.
C2_ClassicWorst ==
    (ClassicRun /\ WorstEnded) => (pc = "done" /\ result2 = 1924)

\* C3: when every board eventually completes a line and exactly one board
\* completes its first line on the latest draw d, playBingoWorstChoice
\* returns that board's unmarked sum after draw d times the number drawn at d.
C3_LastWinner ==
    (/\ WorstEnded
     /\ Len(input) > 0
     /\ \A i \in 1..Len(input) : FirstWin(input[i]) > 0
     /\ LET d == SetMax({FirstWin(input[i]) : i \in 1..Len(input)})
        IN  Cardinality({i \in 1..Len(input) : FirstWin(input[i]) = d}) = 1)
    => LET d == SetMax({FirstWin(input[i]) : i \in 1..Len(input)})
           l == CHOOSE i \in 1..Len(input) : FirstWin(input[i]) = d
       IN  /\ pc = "done"
           /\ result2 = UnmarkedSum(input[l], DrawnUpTo(d)) * numbers[d]

\* C4: playBingoBestChoice stops at the earliest draw d after which some
\* board has a fully marked row or column, not earlier and not later, and
\* returns the highest unmarked sum among the boards winning after draw d
\* times the number drawn at d.
C4_FirstWinner ==
    /\ pc = "best" => WinnersAt(draw) = {}
    /\ (BestReturned /\ WinnersAt(Len(numbers)) # {}) =>
          /\ Len(log1) = 1
          /\ LET d == log1[1].draw
             IN  /\ WinnersAt(d) # {}
                 /\ WinnersAt(d - 1) = {}
                 /\ log1[1].number = numbers[d]
                 /\ log1[1].count = Cardinality(WinnersAt(d))
                 /\ result1 =
                        SetMax({UnmarkedSum(input[i], DrawnUpTo(d)) :
                                   i \in WinnersAt(d)}) * numbers[d]

\* several boards win at draw 2 or later and the first of them is not the best
C4_Witness ==
    /\ BestReturned
    /\ Len(log1) = 1
    /\ log1[1].draw >= 2
    /\ log1[1].count >= 2
    /\ result1 > 0
    /\ LET d == log1[1].draw
       IN  UnmarkedSum(input[SetMin(WinnersAt(d))], DrawnUpTo(d)) * numbers[d]
               < result1

\* C5: run after playBingoBestChoice as main does, playBingoWorstChoice
\* starts from boards with no marked cell, and its outcome is that of
\* playBingoWorstChoice alone on the boards as parsed.
C5_IndependentRuns ==
    /\ (pc = "worst" /\ draw = 0 /\ alias) =>
          \A b \in 1..Len(boards) : \A y \in Idx : \A x \in Idx :
              boards[b][y][x] # -1
    /\ WorstEnded =>
          /\ (pc = "panic") = worstRun(input, numbers, 1).panic
          /\ pc = "done" => result2 = worstRun(input, numbers, 1).score

\* C6: findWinningBoards includes a board if and only if one of its rows or
\* one of its columns consists only of marked cells; a board with a fully
\* marked diagonal and no fully marked row or column is not included.
C6_WinIffLine ==
    \A i \in 1..Len(parsed) :
        /\ findWinningBoards(<<parsed[i]>>) =
               IF HasLine(input[i], drawn) THEN <<parsed[i]>> ELSE <<>>
        /\ Len(findWinningBoards(parsed)) = Cardinality(
               {j \in 1..Len(parsed) : HasLine(input[j], drawn)})

\* a winning board beside boards whose main diagonal and anti-diagonal are
\* fully marked and which have no complete line
C6_Witness ==
    /\ pc = "marks"
    /\ \E i \in 1..Len(parsed) :
          /\ \A k \in Idx : parsed[i][k][k] = -1
          /\ ~HasLine(input[i], drawn)
          /\ findWinningBoards(<<parsed[i]>>) = <<>>
    /\ \E i \in 1..Len(parsed) :
          /\ \A k \in Idx : parsed[i][k][boardSize + 1 - k] = -1
          /\ ~HasLine(input[i], drawn)
          /\ findWinningBoards(<<parsed[i]>>) = <<>>
    /\ \E i \in 1..Len(parsed) :
          /\ \A y \in Idx : \E x \in Idx : parsed[i][y][x] # -1
          /\ findWinningBoards(<<parsed[i]>>) = <<parsed[i]>>

\* C7: calcBoardScore is the sum of the original values of the cells whose
\* value has not been drawn: the sum of all 25 cells with zero draws, 0 once
\* every cell's value has been drawn.
C7_Score ==
    \A i \in 1..Len(parsed) :
        /\ calcBoardScore(parsed[i]) = UnmarkedSum(input[i], drawn)
        /\ drawn = {} => calcBoardScore(parsed[i]) = UnmarkedSum(input[i], {})
        /\ (\A y \in Idx : \A x \in Idx : input[i][y][x] \in drawn)
              => calcBoardScore(parsed[i]) = 0

\* a board with marked cells, an unmarked 0 and a positive score
C7_Witness ==
    /\ pc = "marks"
    /\ \E i \in 1..Len(parsed) :
          /\ \E y \in Idx : \E x \in Idx : parsed[i][y][x] = -1
          /\ \E y \in Idx : \E x \in Idx : parsed[i][y][x] = 0
          /\ calcBoardScore(parsed[i]) > 0
          /\ calcBoardScore(parsed[i]) < UnmarkedSum(input[i], {})

\* C8: a board that findWinningBoards finds winning after a draw is found
\* winning after every later draw.
C8_WinMonotone ==
    [][\A i \in 1..Len(parsed) :
          findWinningBoards(<<parsed[i]>>) # <<>>
              => findWinningBoards(<<parsed'[i]>>) # <<>>]_vars

\* a winning board whose line was complete before another number was drawn
C8_Witness ==
    /\ pc = "marks"
    /\ \E i \in 1..Len(parsed) : \E v \in drawn :
          /\ HasLine(input[i], {v})
          /\ drawn # {v}
          /\ findWinningBoards(<<parsed[i]>>) # <<>>
          /\ \E y \in Idx : \E x \in Idx : parsed[i][y][x] # -1

\* C9: when two boards become winners on the same draw with equal scores,
\* the board playBingoBestChoice selects is the first of the two in input
\* order.
C9_TieFirst ==
    (/\ BestReturned
     /\ Len(log1) = 1
     /\ Cardinality(WinnersAt(log1[1].draw)) = 2
     /\ \A i, j \in WinnersAt(log1[1].draw) :
            UnmarkedSum(input[i], DrawnUpTo(log1[1].draw)) =
            UnmarkedSum(input[j], DrawnUpTo(log1[1].draw)))
    => shown1 = <<parsed[SetMin(WinnersAt(log1[1].draw))]>>

\* C10: on three boards completing their first line on draws 3, 5 and 5,
\* playBingoWorstChoice selects the first of the two boards winning on
\* draw 5 and returns its score after draw 5 times the number drawn there.
C10_FinalTie ==
    (/\ WorstEnded
     /\ Len(input) = 3
     /\ Cardinality({i \in 1..3 : FirstWin(input[i]) = 3}) = 1
     /\ Cardinality({i \in 1..3 : FirstWin(input[i]) = 5}) = 2)
    => LET j == SetMin({i \in 1..3 : FirstWin(input[i]) = 5})
       IN  /\ pc = "done"
           /\ log2 = <<[draw |-> 5, number |-> numbers[5], count |-> 2]>>
           /\ shown2 = <<MarkedBoard(input[j], DrawnUpTo(5))>>
           /\ result2 = UnmarkedSum(input[j], DrawnUpTo(5)) * numbers[5]

\* C11: when no board has a fully marked row or column after the last draw,
\* playBingoBestChoice processes every draw and returns 0.
C11_NoWinner ==
    (BestReturned /\ WinnersAt(Len(numbers)) = {}) =>
        /\ result1 = 0
        /\ log1 = <<>>
        /\ shown1 = <<>>
        /\ drawn = DrawnUpTo(Len(numbers))
        /\ \A i \in 1..Len(input) :
               parsed[i] = MarkedBoard(input[i], DrawnUpTo(Len(numbers)))

\* every draw was processed, cells were marked, and no board has a line
C11_Witness ==
    /\ BestReturned
    /\ WinnersAt(Len(numbers)) = {}
    /\ Len(numbers) >= 3
    /\ Cardinality(drawn) >= 2
    /\ Len(input) >= 2
    /\ result1 = 0

\* the boards of bs at the indices in S, in ascending index order
RECURSIVE SubSeqAt(_, _, _)
SubSeqAt(bs, S, i) ==
    IF i > Len(bs) THEN <<>>
    ELSE IF i \in S THEN <<bs[i]>> \o SubSeqAt(bs, S, i + 1)
         ELSE SubSeqAt(bs, S, i + 1)

\* C12: findWinningBoards and findNonWinningBoards partition a collection:
\* every board is in exactly one result, each result keeps the input's
\* relative order, and the boards are returned with their cells unchanged.
C12_Partition ==
    \E S \in SUBSET (1..Len(parsed)) :
        /\ findWinningBoards(parsed) = SubSeqAt(parsed, S, 1)
        /\ findNonWinningBoards(parsed) =
               SubSeqAt(parsed, (1..Len(parsed)) \ S, 1)

\* a winning board between two non-winning boards with marked cells
C12_Witness ==
    /\ pc = "marks"
    /\ Len(parsed) = 3
    /\ drawn # {}
    /\ Len(findWinningBoards(parsed)) = 1
    /\ findWinningBoards(parsed) = <<parsed[2]>>
    /\ findNonWinningBoards(parsed) = <<parsed[1], parsed[3]>>
    /\ parsed[1] # parsed[3]

\* C13: in playBingoWorstChoice, once the working set has 1 or 2 boards, a
\* draw after which none of them has a complete line produces no result and
\* no failure: the run continues with the next draw and the same candidates.
C13_KeepWaiting ==
    [][(/\ pc = "worst"
        /\ draw < Len(numbers)
        /\ Len(boards) \in {1, 2}
        /\ findWinningBoards(markDrawnNumber(boards, numbers[draw + 1])) = <<>>)
       => (/\ pc' = "worst"
           /\ draw' = draw + 1
           /\ boards' = markDrawnNumber(boards, numbers[draw + 1])
           /\ UNCHANGED <<result2, log2, shown2>>)]_vars

\* the boards of input without a complete line after draw k, in input order,
\* carrying the marks of the first k draws
NonWinnersAfter(k) ==
    SubSeqAt([i \in 1..Len(input) |-> MarkedBoard(input[i], DrawnUpTo(k))],
             (1..Len(input)) \ WinnersAt(k), 1)

\* C14: in playBingoWorstChoice started on unmarked boards, after every draw
\* that begins with more than 2 boards the working set is exactly the
\* original boards without a complete line after that draw, in their
\* original order and with the marks of every draw so far; its size never
\* increases from one draw to the next.
C14_WorkingSet ==
    [][(pc = "worst" /\ Len(boards) > 2 /\ draw < Len(numbers)) =>
          /\ boards' = NonWinnersAfter(draw + 1)
          /\ Len(boards') <= Len(boards)
          /\ draw' = draw + 1
          /\ pc' = "worst"]_vars

\* after the second draw or later a board has been dropped and others remain
C14_Witness ==
    /\ pc = "worst"
    /\ draw >= 2
    /\ ~alias
    /\ Len(input) > 2
    /\ Len(boards) >= 1
    /\ Len(boards) < Len(input)
    /\ boards = NonWinnersAfter(draw)
    /\ \E y \in Idx : \E x \in Idx : boards[1][y][x] = -1

\* C15: markDrawnNumber(boards, n) sets exactly the cells equal to n to the
\* marked sentinel and leaves every other cell unchanged; a board without n
\* is unchanged, a marked cell stays marked, so the marked cells only grow.
C15_MarkFrame ==
    [][\A b \in 1..Len(parsed) :
          /\ \A y \in Idx : \A x \in Idx :
                /\ parsed[b][y][x] \in (drawn' \ drawn) => parsed'[b][y][x] = -1
                /\ parsed[b][y][x] \notin (drawn' \ drawn)
                      => parsed'[b][y][x] = parsed[b][y][x]
                /\ parsed[b][y][x] = -1 => parsed'[b][y][x] = -1
                /\ parsed'[b][y][x] =
                       IF input[b][y][x] \in drawn' THEN -1 ELSE input[b][y][x]
          /\ (\A y \in Idx : \A x \in Idx : parsed[b][y][x] \notin (drawn' \ drawn))
                => parsed'[b] = parsed[b]]_vars

\* a number was drawn that the first board lacks and the second board holds,
\* after another number had marked cells of the first board
C15_Witness ==
    /\ pc = "marks"
    /\ Len(parsed) >= 2
    /\ Cardinality(drawn) = 2
    /\ \E n \in drawn :
          /\ \A y \in Idx : \A x \in Idx : input[1][y][x] # n
          /\ \E y \in Idx : \E x \in Idx : input[2][y][x] = n
          /\ \E y \in Idx : \E x \in Idx : parsed[2][y][x] = -1
    /\ \E y \in Idx : \E x \in Idx : parsed[1][y][x] = -1
    /\ \E y \in Idx : \E x \in Idx : parsed[2][y][x] # -1

\* C16: for a non-empty board collection (also of 1 or 2 boards) and draws
\* in which no board ever completes a row or column, playBingoWorstChoice
\* yields the default result 0 rather than failing.
C16_NoWinnerWorst ==
    (WorstEnded /\ Len(input) > 0 /\ WinnersAt(Len(numbers)) = {})
        => (pc = "done" /\ result2 = 0)

\* C17: each strategy consumes the draws in order, each at most once, and
\* halts after at most Len(numbers) draws, either at the draw where a winner
\* is found or when the sequence is exhausted, processing no draw after the
\* one that produced the result.
C17_InOrderHalts ==
    /\ draw <= Len(numbers)
    /\ pc \in {"best", "worst"} => ENABLED Next
    /\ pc # "best" =>
          \/ /\ log1 = <<>>
             /\ WinnersAt(Len(numbers)) = {}
          \/ /\ Len(log1) = 1
             /\ log1[1].count > 0
             /\ log1[1].draw \in 1..Len(numbers)
             /\ log1[1].number = numbers[log1[1].draw]
    /\ WorstEnded =>
          /\ pc = "done"
          /\ \/ /\ log2 = <<>>
                /\ draw = Len(numbers)
             \/ /\ Len(log2) = 1
                /\ log2[1].count > 0
                /\ log2[1].draw = draw + 1
                /\ log2[1].number = numbers[log2[1].draw]

\* the boards (indices into input) completing their first line at draw d
NewWinnersAt(d) == WinnersAt(d) \ WinnersAt(d - 1)

\* C18: in playBingoWorstChoice started on unmarked boards, whenever a
\* result is computed at draw d from boards[0] of the winning subset, that
\* board had no complete line after draw d-1 and has one after draw d; a
\* board that completed a line on an earlier draw is never the one scored.
C18_ScoredJustWon ==
    (pc = "done" /\ Len(shown2) = 1) =>
        LET d == log2[1].draw
        IN  /\ NewWinnersAt(d) # {}
            /\ shown2[1] = MarkedBoard(input[SetMin(NewWinnersAt(d))],
                                       DrawnUpTo(d))
            /\ result2 = UnmarkedSum(input[SetMin(NewWinnersAt(d))],
                                     DrawnUpTo(d)) * numbers[d]

\* a result at draw 2 or later, after an earlier winner has been dropped
C18_Witness ==
    /\ pc = "done"
    /\ Len(shown2) = 1
    /\ Len(input) > 2
    /\ log2[1].draw >= 2
    /\ WinnersAt(log2[1].draw - 1) # {}
    /\ SetMin(NewWinnersAt(log2[1].draw)) > 1
    /\ result2 > 0

====
